---- MODULE Spec2Model ----
(***************************************************************************)
(* Java tool installer task (JavaToolInstallerV0): run() / getJava() and   *)
(* the macOS installation flow installJDK / installPkg, together with the  *)
(* helpers sudo, attach, detach of taskutils.ts.                           *)
(*                                                                         *)
(* A file name is a sequence of one-character strings, so that             *)
(* String.prototype.endsWith and split(/[\\\/]/) are computed and not      *)
(* assumed.  A path is a sequence of names (its segments); path.join is    *)
(* concatenation of segment lists.                                         *)
(***************************************************************************)
EXTENDS Integers, Sequences, FiniteSets, TLC

\* ------------------------------------------------------------------ bounds
\* Longest stem put in front of a tail when file names are enumerated.
MaxStemLen == 2
\* Most entries one external tool run adds to /Volumes.
MaxNewVolumes == 2
\* Most entries one package installer run adds to the JDK folder.
MaxNewJDKs == 2
\* Most .pkg files a mounted volume holds.
MaxPkgFiles == 2

\* --------------------------------------------------------------- constants
supportedFileEndings ==
    << <<".", "t", "a", "r">>,
       <<".", "t", "a", "r", ".", "g", "z">>,
       <<".", "z", "i", "p">>,
       <<".", "7", "z">>,
       <<".", "d", "m", "g">>,
       <<".", "p", "k", "g">> >>

DMG == <<".", "d", "m", "g">>
PKG == <<".", "p", "k", "g">>

VOLUMES_FOLDER == << <<"Volumes">> >>
JDK_FOLDER == << <<"Library">>, <<"Java">>, <<"JavaVirtualMachines">> >>
JDK_HOME_FOLDER == << <<"Contents">>, <<"Home">> >>
BIN_FOLDER == << <<"bin">> >>

\* The value of a variable that was never assigned, and of an unset task
\* variable (taskLib.getVariable returns undefined).
undefined == << >>
\* What taskLib.setVariable stores for a value that is undefined: val || ''.
emptyString == << << >> >>

\* ------------------------------------------------------------ pure helpers
\* String.prototype.endsWith
EndsWith(s, e) ==
    /\ Len(s) >= Len(e)
    /\ SubSeq(s, Len(s) - Len(e) + 1, Len(s)) = e

\* String.prototype.includes
Includes(s, e) ==
    \E i \in 1..(Len(s) - Len(e) + 1) : SubSeq(s, i, i + Len(e) - 1) = e

Min(S) == CHOOSE x \in S : \A y \in S : x <= y

\* path.join on segment lists
join2(a, b) == a \o b
join3(a, b, c) == a \o b \o c

\* Filter that stops at the first element it drops
RECURSIVE Filter_untilDropped(_, _)
Filter_untilDropped(arr, keep) ==
    IF arr = << >> \/ Head(arr) \notin keep THEN << >>
    ELSE << Head(arr) >> \o Filter_untilDropped(Tail(arr), keep)

\* Array.prototype.filter, keeping the order of the array
RECURSIVE Filter(_, _)
Filter(arr, keep) ==
    IF arr = << >> THEN << >>
    ELSE (IF Head(arr) \in keep THEN << Head(arr) >> ELSE << >>)
         \o Filter(Tail(arr), keep)

Range(arr) == { arr[i] : i \in 1..Len(arr) }

\* fs.readdirSync: the entries of a directory, in an order the file system
\* chooses.
Listings(dir) ==
    { f \in [1..Cardinality(dir) -> dir] : \A i, j \in 1..Cardinality(dir) : f[i] = f[j] => i = j }

\* getSupportedFileEnding with endsWith replaced by includes
getSupportedFileEnding_includes(file) ==
    LET hits == { i \in 1..Len(supportedFileEndings) : Includes(file, supportedFileEndings[i]) }
    IN  IF hits # {}
        THEN [threw |-> FALSE, value |-> supportedFileEndings[Min(hits)], message |-> ""]
        ELSE [threw |-> TRUE, value |-> undefined, message |-> "UnsupportedFileExtension"]

\* getSupportedFileEnding that returns what find returns, undefined included
getSupportedFileEnding_noThrow(file) ==
    LET hits == { i \in 1..Len(supportedFileEndings) : EndsWith(file, supportedFileEndings[i]) }
    IN  IF hits # {}
        THEN [threw |-> FALSE, value |-> supportedFileEndings[Min(hits)], message |-> ""]
        ELSE [threw |-> FALSE, value |-> undefined, message |-> ""]

\* getSupportedFileEnding: supportedFileEndings.find(ending => file.endsWith(ending)),
\* throwing when find returns undefined.
getSupportedFileEnding(file) ==
    LET hits == { i \in 1..Len(supportedFileEndings) : EndsWith(file, supportedFileEndings[i]) }
    IN  IF hits # {}
        THEN [threw |-> FALSE, value |-> supportedFileEndings[Min(hits)], message |-> ""]
        ELSE [threw |-> TRUE, value |-> undefined, message |-> "UnsupportedFileExtension"]

\* fileNameAndPath.split(/[\\\/]/).pop(): the part after the last separator
RECURSIVE LastSegment(_)
LastSegment(name) ==
    LET seps == { i \in 1..Len(name) : name[i] \in {"/", "\\"} }
    IN  IF seps = {} THEN name
        ELSE LastSegment(SubSeq(name, Min(seps) + 1, Len(name)))

\* buildFilePath(localPathRoot, fileEnding, fileNameAndPath)
buildFilePath(localPathRoot, fileEnding, fileNameAndPath) ==
    join2(localPathRoot, << LastSegment(fileNameAndPath) >>)

\* ------------------------------------------------------------ input domains
Platforms == {"darwin", "linux", "win32"}
SourceOptions == {"PreInstalled", "AzureStorage", "LocalDirectory"}
VersionSpecs == {"8", "11"}
Architectures == {"x64"}
DestKinds == {"missing", "file", "dir"}

\* All sequences over alphabet of length at most n
RECURSIVE SeqsUpTo(_, _)
SeqsUpTo(alphabet, n) ==
    IF n = 0 THEN { << >> }
    ELSE LET shorter == SeqsUpTo(alphabet, n - 1)
         IN  shorter \cup { Append(s, c) : s \in shorter, c \in alphabet }

Stems == SeqsUpTo({"j", ".", "/"}, MaxStemLen)

\* Ends of file names: the six supported endings, the same in another case,
\* cut short, followed by something else, and unrelated ones.
Tails ==
    Range(supportedFileEndings) \cup
    { << >>,
      <<".", "T", "A", "R">>, <<".", "D", "m", "g">>, <<".", "P", "K", "G">>,
      <<".", "Z", "i", "p">>, <<".", "7", "Z">>,
      <<"t", "a", "r">>, <<"d", "m", "g">>, <<"7", "z">>,
      <<".", "t", "a", "r", ".", "g">>, <<".", "g", "z">>, <<".", "t", "g", "z">>,
      <<".", "e", "x", "e">>, <<".", "p", "k">>,
      <<".", "d", "m", "g", ".", "z", "i", "p">>, <<".", "t", "a", "r", ".", "b", "a", "k">>,
      <<".", "p", "k", "g", " ">>, <<".", "z", "i", "p", "/">>,
      <<".", "7", "z", ".", "e", "x", "e">>, <<".", "d", "m", "g", "s">> }

\* File names the classifier is tried on
ClassifyNames == { s \o t : s \in Stems, t \in Tails }

\* Archive names of a run (jdkFile or azureCommonVirtualFile)
ArchiveNames ==
    { <<"j">> \o supportedFileEndings[i] : i \in 1..Len(supportedFileEndings) } \cup
    { <<"j", ".", "e", "x", "e">>,
      <<"j", ".", "D", "M", "G">>,
      <<"d", "/", "j", ".", "d", "m", "g">> }

extractLocation == << <<"dest">> >>
\* JDK homes the generic extractor may report
ExtractedHomes ==
    { join2(extractLocation, << <<"j", "d", "k", "-", "1", "1">> >>),
      join2(extractLocation, << <<"j", "d", "k", "8">> >>) }
\* A JDK registered by an earlier run
registeredHome == << <<"opt">>, <<"j", "d", "k">> >>

\* Entry names an external tool may create: <stem><i><ending>
entryName(stem, i, ending) == stem \o << ToString(i) >> \o ending
NewVolumeNames == { entryName(<<"J", "D", "K", " ">>, i, << >>) : i \in 1..MaxNewVolumes }
NewJDKNames == { entryName(<<"j", "d", "k", "-">>, i, <<".", "j", "d", "k">>) : i \in 1..MaxNewJDKs }
PkgFileNames == { entryName(<<"J", "D", "K", " ">>, i, PKG) : i \in 1..MaxPkgFiles }
\* A file of a disk image that is not a package: the ending is in another case
OtherFileNames == { <<"x", ".", "P", "K", "G">> }

systemVolume == <<"M", "a", "c", "i", "n", "t", "o", "s", "h", " ", "H", "D">>
installedJDK == <<"j", "d", "k", "-", "0", ".", "j", "d", "k">>

JAVA_HOME == <<"JAVA_HOME">>
\* `JAVA_HOME_${versionSpec}_${jdkArchitectureOption}`
extendedJavaHomeName(spec, arch) == <<"JAVA_HOME", "_", spec, "_", arch>>
VariableNames == { JAVA_HOME } \cup { extendedJavaHomeName(v, a) : v \in VersionSpecs, a \in Architectures }

\* ------------------------------------------------------------------- state
VARIABLES
    pc,                         \* the statement the run is at
    \* task inputs and the agent
    platform,                   \* os.platform()
    jdkSourceOption,            \* input jdkSourceOption
    version,                    \* toolLib.evaluateVersions(...): "" when no cached version matches
    versionSpec,                \* input versionSpec
    jdkArchitectureOption,      \* input jdkArchitectureOption
    fileName,                   \* input jdkFile or azureCommonVirtualFile
    cleanDestinationDirectory,  \* input cleanDestinationDirectory
    \* file system
    destKind,                   \* what jdkDestinationDirectory is on disk
    destEntries,                \* entries of jdkDestinationDirectory
    volumesDir,                 \* entries of /Volumes
    volumeFiles,                \* entries of the volume the disk image holds
    jdkDir,                     \* entries of /Library/Java/JavaVirtualMachines
    \* task library state
    variables,                  \* task variables
    PATH,                       \* entries prepended by toolLib.prependPath
    result,                     \* taskLib.setResult calls, in order
    errors,                     \* taskLib.error messages, in order
    \* locals of getJava, installJDK, installPkg
    compressedFileExtension, sourceFile, volumes, volumesAfter, newVolumes,
    volumePath, packages, pkgPath, JDKs, newJDKs, jdkDirectory,
    error,                      \* the Error in flight, "" when none
    \* what ran
    exits,                      \* how each external tool run ended
    log                         \* external operations, in order

inputVars == <<platform, jdkSourceOption, version, versionSpec, jdkArchitectureOption,
               fileName, cleanDestinationDirectory>>
fsVars == <<destKind, destEntries, volumesDir, volumeFiles, jdkDir>>
taskVars == <<variables, PATH, result, errors>>
mountVars == <<volumes, volumesAfter, newVolumes, volumePath, packages, pkgPath>>
pkgVars == <<JDKs, newJDKs>>
vars == <<pc, inputVars, fsVars, taskVars, compressedFileExtension, sourceFile,
          mountVars, pkgVars, jdkDirectory, error, exits, log>>

extendedJavaHome == extendedJavaHomeName(versionSpec, jdkArchitectureOption)
preInstalled == jdkSourceOption = "PreInstalled"
fromAzure == jdkSourceOption = "AzureStorage"

NoExits == [attach |-> "none", installer |-> "none", detach |-> "none"]

\* State after the task process has started: inputs read, nothing run yet
InitCommon ==
    /\ platform \in Platforms
    /\ versionSpec \in VersionSpecs
    /\ jdkArchitectureOption \in Architectures
    /\ volumesDir = { systemVolume }
    /\ volumeFiles = {}
    /\ jdkDir = { installedJDK }
    /\ \E registered \in BOOLEAN :
         variables = [n \in VariableNames |->
                        IF registered /\ n = extendedJavaHomeName(versionSpec, jdkArchitectureOption)
                        THEN registeredHome ELSE undefined]
    /\ PATH = << >>
    /\ result = << >>
    /\ errors = << >>
    /\ compressedFileExtension = undefined
    /\ sourceFile = undefined
    /\ volumes = {}
    /\ volumesAfter = {}
    /\ newVolumes = << >>
    /\ volumePath = undefined
    /\ packages = << >>
    /\ pkgPath = undefined
    /\ JDKs = {}
    /\ newJDKs = << >>
    /\ jdkDirectory = undefined
    /\ error = ""
    /\ exits = NoExits
    /\ log = << >>

Init ==
    /\ InitCommon
    /\ pc = "getJava"
    /\ jdkSourceOption \in SourceOptions
    /\ version \in {"", "11.0.2"}
    /\ fileName \in ArchiveNames
    /\ cleanDestinationDirectory \in BOOLEAN
    /\ destKind \in DestKinds
    /\ destEntries = IF destKind = "dir" THEN { <<"o", "l", "d">> } ELSE {}

\* ----------------------------------------------------------------- helpers
Op(name, program, toolPath, target) ==
    [op |-> name, program |-> program, toolPath |-> toolPath, target |-> target]
\* An operation of the task itself (no external program)
Did(name, target) == Op(name, "", "", target)

\* throw new Error(message), caught by run()
Throw(message) ==
    /\ error' = message
    /\ pc' = "catch"

\* ------------------------------------------------------------ getJava
\* taskLib.stats(extractLocation).isDirectory: the method is read, not called,
\* so the value is a function object, truthy for whatever exists at the path.
statsIsDirectory(kind) == TRUE

\* getJava, up to the choice of the source: clean the destination folder.
CleanDestination ==
    /\ pc = "getJava"
    /\ IF cleanDestinationDirectory /\ destKind # "missing" /\ statsIsDirectory(destKind)
       THEN IF destKind = "dir"
            THEN \* readdirSync(extractLocation).forEach(item => rmRF(join(extractLocation, item)))
                 /\ destEntries' = {}
                 /\ log' = Append(log, Did("clean", extractLocation))
                 /\ pc' = "source"
                 /\ error' = error
            ELSE \* readdirSync of a file throws
                 /\ Throw("ENOTDIR")
                 /\ log' = Append(log, Did("clean", extractLocation))
                 /\ UNCHANGED destEntries
       ELSE /\ pc' = "source"
            /\ UNCHANGED <<destEntries, log, error>>
    /\ UNCHANGED <<inputVars, destKind, volumesDir, volumeFiles, jdkDir, taskVars,
                   compressedFileExtension, sourceFile, mountVars, pkgVars, jdkDirectory, exits>>

\* ChooseSource that looks at the cached version last
ChooseSource_cacheLast ==
    /\ pc = "source"
    /\ IF preInstalled
       THEN IF variables[extendedJavaHome] = undefined
            THEN /\ Throw("JavaNotPreinstalled")
                 /\ UNCHANGED jdkDirectory
            ELSE /\ jdkDirectory' = variables[extendedJavaHome]
                 /\ pc' = "publish"
                 /\ UNCHANGED error
       ELSE IF fromAzure
       THEN /\ pc' = "download"
            /\ UNCHANGED <<jdkDirectory, error>>
       ELSE IF version # ""
       THEN /\ pc' = "publish"
            /\ UNCHANGED <<jdkDirectory, error>>
       ELSE /\ pc' = "classify"
            /\ UNCHANGED <<jdkDirectory, error>>
    /\ UNCHANGED <<inputVars, fsVars, taskVars, compressedFileExtension, sourceFile,
                   mountVars, pkgVars, exits, log>>

\* if (version) ... else if (preInstalled) ... else if (fromAzure) ... else ...
ChooseSource ==
    /\ pc = "source"
    /\ IF version # ""
       THEN /\ pc' = "publish"
            /\ UNCHANGED <<jdkDirectory, error>>
       ELSE IF preInstalled
       THEN IF variables[extendedJavaHome] = undefined
            THEN /\ Throw("JavaNotPreinstalled")
                 /\ UNCHANGED jdkDirectory
            ELSE /\ jdkDirectory' = variables[extendedJavaHome]
                 /\ pc' = "publish"
                 /\ UNCHANGED error
       ELSE IF fromAzure
       THEN /\ pc' = "download"
            /\ UNCHANGED <<jdkDirectory, error>>
       ELSE /\ pc' = "classify"
            /\ UNCHANGED <<jdkDirectory, error>>
    /\ UNCHANGED <<inputVars, fsVars, taskVars, compressedFileExtension, sourceFile,
                   mountVars, pkgVars, exits, log>>

\* azureDownloader.downloadArtifacts(extractLocation, '*' + fileNameAndPath); sleepFor(250)
Download ==
    /\ pc = "download"
    /\ \E ok \in BOOLEAN :
         IF ok
         THEN /\ destEntries' = destEntries \cup { LastSegment(fileName) }
              /\ pc' = "classify"
              /\ UNCHANGED error
         ELSE /\ Throw("DownloadFailed")
              /\ UNCHANGED destEntries
    /\ log' = Append(log, Did("download", extractLocation))
    /\ UNCHANGED <<inputVars, destKind, volumesDir, volumeFiles, jdkDir, taskVars,
                   compressedFileExtension, sourceFile, mountVars, pkgVars, jdkDirectory, exits>>

\* compressedFileExtension = getSupportedFileEnding(...); the source file of installJDK
Classify ==
    /\ pc = "classify"
    /\ LET ending == getSupportedFileEnding(fileName)
       IN  IF ending.threw
           THEN /\ Throw(ending.message)
                /\ UNCHANGED <<compressedFileExtension, sourceFile>>
           ELSE /\ compressedFileExtension' = ending.value
                /\ sourceFile' = IF fromAzure
                                 THEN buildFilePath(extractLocation, ending.value, fileName)
                                 ELSE << fileName >>
                /\ pc' = "installJDK"
                /\ UNCHANGED error
    /\ UNCHANGED <<inputVars, fsVars, taskVars, mountVars, pkgVars, jdkDirectory, exits, log>>

\* --------------------------------------------------------- external tools
\* How a tool run ends: "zero" and "nonzero" are the tool's exit status;
\* "nolaunch" is a run in which the tool itself never started (taskLib.which
\* found nothing, or the process could not be spawned).
Outcomes == {"zero", "nonzero", "nolaunch"}

\* taskLib.which(toolName): the tool's location, '' when it is not in PATH
which(toolName, inPath) == IF inPath THEN toolName ELSE ""

\* sudo with the platform test inverted
sudo_inverted(toolName, inPath) ==
    IF platform # "win32"
    THEN [program |-> toolName, toolPath |-> ""]
    ELSE [program |-> "sudo", toolPath |-> which(toolName, inPath)]

\* sudo(toolName): the program that is run and the first argument it gets
sudo(toolName, inPath) ==
    IF platform = "win32"
    THEN [program |-> toolName, toolPath |-> ""]
    ELSE [program |-> "sudo", toolPath |-> which(toolName, inPath)]

\* A run of `toolName` through sudo(): whether the tool is in PATH and how the
\* run ends.  ToolRunner.exec() rejects unless the exit status is zero.
ToolRuns(toolName) ==
    { [cmd |-> sudo(toolName, inPath), outcome |-> o] :
        inPath \in BOOLEAN, o \in Outcomes } \ 
    { [cmd |-> sudo(toolName, FALSE), outcome |-> o] : o \in {"zero", "nonzero"} }

execRejects(outcome) == outcome # "zero"

\* ------------------------------------------------------------- installJDK
\* installJDKBranch with || in place of && in the disk-image test
installJDKBranch_or(fileExtension, os) ==
    IF fileExtension = DMG \/ os = "darwin" THEN "dmg"
    ELSE IF fileExtension = PKG /\ os = "darwin" THEN "pkg"
    ELSE "extract"

\* installJDKBranch that does not look at the platform
installJDKBranch_noPlatform(fileExtension, os) ==
    IF fileExtension = DMG THEN "dmg"
    ELSE IF fileExtension = PKG THEN "pkg"
    ELSE "extract"

\* installJDKBranch that sends a package file through the disk-image branch
installJDKBranch_pkgMounted(fileExtension, os) ==
    IF fileExtension \in {DMG, PKG} /\ os = "darwin" THEN "dmg"
    ELSE "extract"

\* The branch installJDK takes
installJDKBranch(fileExtension, os) ==
    IF fileExtension = DMG /\ os = "darwin" THEN "dmg"
    ELSE IF fileExtension = PKG /\ os = "darwin" THEN "pkg"
    ELSE "extract"

\* installJDK up to attach: const volumes = new Set(fs.readdirSync(VOLUMES_FOLDER))
InstallJDK ==
    /\ pc = "installJDK"
    /\ LET branch == installJDKBranch(compressedFileExtension, platform)
       IN  IF branch = "dmg"
           THEN /\ volumes' = volumesDir
                /\ log' = Append(log, Did("readdir", VOLUMES_FOLDER))
                /\ pc' = "attach"
                /\ UNCHANGED pkgPath
           ELSE IF branch = "pkg"
           THEN /\ pkgPath' = sourceFile
                /\ pc' = "installPkg"
                /\ UNCHANGED <<volumes, log>>
           ELSE /\ pc' = "extract"
                /\ UNCHANGED <<volumes, pkgPath, log>>
    /\ UNCHANGED <<inputVars, fsVars, taskVars, compressedFileExtension, sourceFile,
                   volumesAfter, newVolumes, volumePath, packages, pkgVars,
                   jdkDirectory, error, exits>>

\* Attach whose exec() is not awaited: a rejection does not stop installJDK
Attach_unawaited ==
    /\ pc = "attach"
    /\ \E run \in ToolRuns("hdiutil"), added \in SUBSET NewVolumeNames,
          files \in SUBSET (PkgFileNames \cup OtherFileNames) :
         /\ run.outcome = "nolaunch" => added = {}
         /\ added = {} => files = {}
         /\ volumesDir' = volumesDir \cup added
         /\ volumeFiles' = files
         /\ exits' = [exits EXCEPT !.attach = run.outcome]
         /\ log' = Append(log, Op("attach", run.cmd.program, run.cmd.toolPath, sourceFile))
    /\ pc' = "getVolumePath"
    /\ UNCHANGED <<inputVars, destKind, destEntries, jdkDir, taskVars,
                   compressedFileExtension, sourceFile, mountVars, pkgVars, jdkDirectory,
                   error>>

\* Attach that is run a second time when the first run is rejected
Attach_retryOnce ==
    /\ pc = "attach"
    /\ \E run \in ToolRuns("hdiutil"), added \in SUBSET NewVolumeNames,
          files \in SUBSET (PkgFileNames \cup OtherFileNames) :
         /\ run.outcome = "nolaunch" => added = {}
         /\ added = {} => files = {}
         /\ volumesDir' = volumesDir \cup added
         /\ volumeFiles' = files
         /\ exits' = [exits EXCEPT !.attach = run.outcome]
         /\ log' = Append(log, Op("attach", run.cmd.program, run.cmd.toolPath, sourceFile))
         /\ IF execRejects(run.outcome)
            THEN IF exits.attach = "none"
                 THEN UNCHANGED <<pc, error>>
                 ELSE Throw("AttachFailed")
            ELSE /\ pc' = "getVolumePath"
                 /\ UNCHANGED error
    /\ UNCHANGED <<inputVars, destKind, destEntries, jdkDir, taskVars,
                   compressedFileExtension, sourceFile, mountVars, pkgVars, jdkDirectory>>

\* attach(sourceFile): sudo('hdiutil') attach "<sourceFile>"
Attach ==
    /\ pc = "attach"
    /\ \E run \in ToolRuns("hdiutil"), added \in SUBSET NewVolumeNames,
          files \in SUBSET (PkgFileNames \cup OtherFileNames) :
         /\ run.outcome = "nolaunch" => added = {}
         /\ added = {} => files = {}
         /\ volumesDir' = volumesDir \cup added
         /\ volumeFiles' = files
         /\ exits' = [exits EXCEPT !.attach = run.outcome]
         /\ log' = Append(log, Op("attach", run.cmd.program, run.cmd.toolPath, sourceFile))
         /\ IF execRejects(run.outcome)
            THEN Throw("AttachFailed")
            ELSE /\ pc' = "getVolumePath"
                 /\ UNCHANGED error
    /\ UNCHANGED <<inputVars, destKind, destEntries, jdkDir, taskVars,
                   compressedFileExtension, sourceFile, mountVars, pkgVars, jdkDirectory>>

\* getVolumePath with the test on the number of new volumes weakened to "none"
getVolumePath_atLeastOne(before, listing) ==
    LET new == Filter(listing, Range(listing) \ before)
    IN  IF Len(new) = 0
        THEN [threw |-> TRUE, newVolumes |-> new, value |-> undefined,
              message |-> "UnsupportedDMGStructure"]
        ELSE [threw |-> FALSE, newVolumes |-> new,
              value |-> join2(VOLUMES_FOLDER, << new[1] >>), message |-> ""]

\* getVolumePath(volumes), given what fs.readdirSync(VOLUMES_FOLDER) lists
getVolumePath(before, listing) ==
    LET new == Filter(listing, Range(listing) \ before)
    IN  IF Len(new) # 1
        THEN [threw |-> TRUE, newVolumes |-> new, value |-> undefined,
              message |-> "UnsupportedDMGStructure"]
        ELSE [threw |-> FALSE, newVolumes |-> new,
              value |-> join2(VOLUMES_FOLDER, << new[1] >>), message |-> ""]

\* const volumePath = getVolumePath(volumes)
GetVolumePath ==
    /\ pc = "getVolumePath"
    /\ \E listing \in Listings(volumesDir) :
         LET r == getVolumePath(volumes, listing)
         IN  /\ volumesAfter' = Range(listing)
             /\ newVolumes' = r.newVolumes
             /\ volumePath' = r.value
             /\ IF r.threw
                THEN Throw(r.message)
                ELSE /\ pc' = "getPackagePath"
                     /\ UNCHANGED error
    /\ log' = Append(log, Did("readdir", VOLUMES_FOLDER))
    /\ UNCHANGED <<inputVars, fsVars, taskVars, compressedFileExtension, sourceFile,
                   volumes, packages, pkgPath, pkgVars, jdkDirectory, exits>>

\* getPackagePath that takes the first package when there are several
getPackagePath_first(folder, listing) ==
    LET found == Filter(listing, { f \in Range(listing) : EndsWith(f, PKG) })
    IN  IF Len(found) >= 1
        THEN [threw |-> FALSE, packages |-> found,
              value |-> join2(folder, << found[1] >>), message |-> ""]
        ELSE [threw |-> TRUE, packages |-> found, value |-> undefined, message |-> "NoPKGFile"]

\* getPackagePath(volumePath), given what fs.readdirSync(volumePath) lists
getPackagePath(folder, listing) ==
    LET found == Filter(listing, { f \in Range(listing) : EndsWith(f, PKG) })
    IN  IF Len(found) = 1
        THEN [threw |-> FALSE, packages |-> found,
              value |-> join2(folder, << found[1] >>), message |-> ""]
        ELSE IF Len(found) = 0
        THEN [threw |-> TRUE, packages |-> found, value |-> undefined, message |-> "NoPKGFile"]
        ELSE [threw |-> TRUE, packages |-> found, value |-> undefined,
              message |-> "SeveralPKGFiles"]

\* let pkgPath = getPackagePath(volumePath)
GetPackagePath ==
    /\ pc = "getPackagePath"
    /\ \E listing \in Listings(volumeFiles) :
         LET r == getPackagePath(volumePath, listing)
         IN  /\ packages' = r.packages
             /\ pkgPath' = r.value
             /\ IF r.threw
                THEN Throw(r.message)
                ELSE /\ pc' = "installPkg"
                     /\ UNCHANGED error
    /\ log' = Append(log, Did("readdir", volumePath))
    /\ UNCHANGED <<inputVars, fsVars, taskVars, compressedFileExtension, sourceFile,
                   volumes, volumesAfter, newVolumes, volumePath, pkgVars,
                   jdkDirectory, exits>>

\* ------------------------------------------------------------- installPkg
\* InstallPkg without the existence check
InstallPkg_noCheck ==
    /\ pc = "installPkg"
    /\ \E exists \in BOOLEAN :
         /\ JDKs' = jdkDir
         /\ log' = log \o (IF exists THEN << >> ELSE << Did("notFound", pkgPath) >>)
                       \o << Did("readdir", JDK_FOLDER) >>
    /\ pc' = "runPkgInstaller"
    /\ UNCHANGED <<inputVars, fsVars, taskVars, compressedFileExtension, sourceFile,
                   mountVars, newJDKs, jdkDirectory, error, exits>>

\* installPkg up to the installer run: the existence check and
\* const JDKs = new Set(fs.readdirSync(JDK_FOLDER)).  The log tells when
\* fs.existsSync found nothing at the path ("notFound").
InstallPkg ==
    /\ pc = "installPkg"
    /\ \E exists \in BOOLEAN :
         IF ~exists
         THEN /\ Throw("PkgPathDoesNotExist")
              /\ log' = log \o << Did("existsSync", pkgPath), Did("notFound", pkgPath) >>
              /\ UNCHANGED JDKs
         ELSE /\ JDKs' = jdkDir
              /\ log' = log \o << Did("existsSync", pkgPath), Did("readdir", JDK_FOLDER) >>
              /\ pc' = "runPkgInstaller"
              /\ UNCHANGED error
    /\ UNCHANGED <<inputVars, fsVars, taskVars, compressedFileExtension, sourceFile,
                   mountVars, newJDKs, jdkDirectory, exits>>

\* RunPkgInstaller without the try/catch: a rejected exec() leaves installPkg
RunPkgInstaller_uncaught ==
    /\ pc = "runPkgInstaller"
    /\ \E run \in ToolRuns("installer"), added \in SUBSET NewJDKNames, removed \in SUBSET jdkDir :
         /\ run.outcome = "nolaunch" => (added = {} /\ removed = {})
         /\ jdkDir' = (jdkDir \ removed) \cup added
         /\ exits' = [exits EXCEPT !.installer = run.outcome]
         /\ log' = Append(log, Op("installer", run.cmd.program, run.cmd.toolPath, pkgPath))
         /\ IF execRejects(run.outcome)
            THEN Throw("InstallerFailed")
            ELSE /\ pc' = "newJDKs"
                 /\ UNCHANGED error
    /\ UNCHANGED <<inputVars, destKind, destEntries, volumesDir, volumeFiles, taskVars,
                   compressedFileExtension, sourceFile, mountVars, pkgVars,
                   jdkDirectory>>

\* RunPkgInstaller followed by the JDK-root snapshot: the snapshot is taken
\* when the installer has exited
RunPkgInstaller_snapshotAfter ==
    /\ pc = "runPkgInstaller"
    /\ \E run \in ToolRuns("installer"), added \in SUBSET NewJDKNames, removed \in SUBSET jdkDir :
         /\ run.outcome = "nolaunch" => (added = {} /\ removed = {})
         /\ jdkDir' = (jdkDir \ removed) \cup added
         /\ JDKs' = jdkDir'
         /\ exits' = [exits EXCEPT !.installer = run.outcome]
         /\ log' = Append(log, Op("installer", run.cmd.program, run.cmd.toolPath, pkgPath))
    /\ pc' = "newJDKs"
    /\ UNCHANGED <<inputVars, destKind, destEntries, volumesDir, volumeFiles, taskVars,
                   compressedFileExtension, sourceFile, mountVars, newJDKs,
                   jdkDirectory, error>>

\* runPkgInstaller(pkgPath): sudo('installer') -package "<pkgPath>" -target /
\* inside try { } catch { taskLib.debug(...) }: nothing it throws gets out.
RunPkgInstaller ==
    /\ pc = "runPkgInstaller"
    /\ \E run \in ToolRuns("installer"), added \in SUBSET NewJDKNames, removed \in SUBSET jdkDir :
         /\ run.outcome = "nolaunch" => (added = {} /\ removed = {})
         /\ jdkDir' = (jdkDir \ removed) \cup added
         /\ exits' = [exits EXCEPT !.installer = run.outcome]
         /\ log' = Append(log, Op("installer", run.cmd.program, run.cmd.toolPath, pkgPath))
    /\ pc' = "newJDKs"
    /\ UNCHANGED <<inputVars, destKind, destEntries, volumesDir, volumeFiles, taskVars,
                   compressedFileExtension, sourceFile, mountVars, pkgVars,
                   jdkDirectory, error>>

\* installPkgResult that leaves the home subfolder out of the path
installPkgResult_noHome(before, listing, preInstalledJavaDirectory) ==
    LET new == Filter(listing, Range(listing) \ before)
    IN  IF Len(new) = 0
        THEN IF preInstalledJavaDirectory = undefined
             THEN [threw |-> TRUE, newJDKs |-> new, value |-> undefined,
                   message |-> "JavaNotPreinstalled"]
             ELSE [threw |-> FALSE, newJDKs |-> new, value |-> preInstalledJavaDirectory,
                   message |-> ""]
        ELSE [threw |-> FALSE, newJDKs |-> new,
              value |-> join2(JDK_FOLDER, << new[1] >>), message |-> ""]

\* installPkgResult that does not look the registered JDK up
installPkgResult_noLookup(before, listing, preInstalledJavaDirectory) ==
    LET new == Filter(listing, Range(listing) \ before)
    IN  IF Len(new) = 0
        THEN [threw |-> TRUE, newJDKs |-> new, value |-> undefined,
              message |-> "JavaNotPreinstalled"]
        ELSE [threw |-> FALSE, newJDKs |-> new,
              value |-> join3(JDK_FOLDER, << new[1] >>, JDK_HOME_FOLDER), message |-> ""]

\* installPkgResult that returns the looked-up value even when it is undefined
installPkgResult_noThrow(before, listing, preInstalledJavaDirectory) ==
    LET new == Filter(listing, Range(listing) \ before)
    IN  IF Len(new) = 0
        THEN [threw |-> FALSE, newJDKs |-> new, value |-> preInstalledJavaDirectory,
              message |-> ""]
        ELSE [threw |-> FALSE, newJDKs |-> new,
              value |-> join3(JDK_FOLDER, << new[1] >>, JDK_HOME_FOLDER), message |-> ""]

\* installPkg after the installer run: what it returns or throws, given what
\* fs.readdirSync(JDK_FOLDER) lists and taskLib.getVariable(extendedJavaHome)
installPkgResult(before, listing, preInstalledJavaDirectory) ==
    LET new == Filter(listing, Range(listing) \ before)
    IN  IF Len(new) = 0
        THEN IF preInstalledJavaDirectory = undefined
             THEN [threw |-> TRUE, newJDKs |-> new, value |-> undefined,
                   message |-> "JavaNotPreinstalled"]
             ELSE [threw |-> FALSE, newJDKs |-> new, value |-> preInstalledJavaDirectory,
                   message |-> ""]
        ELSE [threw |-> FALSE, newJDKs |-> new,
              value |-> join3(JDK_FOLDER, << new[1] >>, JDK_HOME_FOLDER), message |-> ""]

\* const newJDKs = fs.readdirSync(JDK_FOLDER).filter(...) and the rest of
\* installPkg; its caller goes on to detach (disk image) or returns.
NewJDKs ==
    /\ pc = "newJDKs"
    /\ \E listing \in Listings(jdkDir) :
         LET r == installPkgResult(JDKs, listing, variables[extendedJavaHome])
         IN  /\ newJDKs' = r.newJDKs
             /\ jdkDirectory' = r.value
             /\ IF r.threw
                THEN Throw(r.message)
                ELSE /\ pc' = IF installJDKBranch(compressedFileExtension, platform) = "dmg"
                              THEN "detach" ELSE "publish"
                     /\ UNCHANGED error
    /\ log' = Append(log, Did("readdir", JDK_FOLDER))
    /\ UNCHANGED <<inputVars, fsVars, taskVars, compressedFileExtension, sourceFile,
                   mountVars, JDKs, exits>>

\* Detach whose failure is not caught
Detach_uncaught ==
    /\ pc = "detach"
    /\ \E run \in ToolRuns("hdiutil") :
         /\ exits' = [exits EXCEPT !.detach = run.outcome]
         /\ log' = Append(log, Op("detach", run.cmd.program, run.cmd.toolPath, volumePath))
         /\ IF execRejects(run.outcome)
            THEN /\ Throw("DetachFailed")
                 /\ UNCHANGED <<volumesDir, errors>>
            ELSE /\ volumesDir' = volumesDir \ Range(newVolumes)
                 /\ pc' = "publish"
                 /\ UNCHANGED <<errors, error>>
    /\ UNCHANGED <<inputVars, destKind, destEntries, volumeFiles, jdkDir, variables, PATH,
                   result, compressedFileExtension, sourceFile, mountVars, pkgVars,
                   jdkDirectory>>

\* Detach that is given the disk image file instead of the mounted volume
Detach_sourceFile ==
    /\ pc = "detach"
    /\ \E run \in ToolRuns("hdiutil") :
         /\ exits' = [exits EXCEPT !.detach = run.outcome]
         /\ log' = Append(log, Op("detach", run.cmd.program, run.cmd.toolPath, sourceFile))
         /\ IF execRejects(run.outcome)
            THEN /\ errors' = Append(errors, "DetachFailed")
                 /\ UNCHANGED volumesDir
            ELSE /\ volumesDir' = volumesDir \ Range(newVolumes)
                 /\ UNCHANGED errors
    /\ pc' = "publish"
    /\ UNCHANGED <<inputVars, destKind, destEntries, volumeFiles, jdkDir, variables, PATH,
                   result, compressedFileExtension, sourceFile, mountVars, pkgVars,
                   jdkDirectory, error>>

\* try { await detach(volumePath) } catch (error) { taskLib.error(error.message) }
Detach ==
    /\ pc = "detach"
    /\ \E run \in ToolRuns("hdiutil") :
         /\ exits' = [exits EXCEPT !.detach = run.outcome]
         /\ log' = Append(log, Op("detach", run.cmd.program, run.cmd.toolPath, volumePath))
         /\ IF execRejects(run.outcome)
            THEN /\ errors' = Append(errors, "DetachFailed")
                 /\ UNCHANGED volumesDir
            ELSE /\ volumesDir' = volumesDir \ Range(newVolumes)
                 /\ UNCHANGED errors
    /\ pc' = "publish"
    /\ UNCHANGED <<inputVars, destKind, destEntries, volumeFiles, jdkDir, variables, PATH,
                   result, compressedFileExtension, sourceFile, mountVars, pkgVars,
                   jdkDirectory, error>>

\* javaFilesExtractor.unzipJavaDownload(sourceFile, fileExtension, archiveExtractLocation)
Extract ==
    /\ pc = "extract"
    /\ \/ \E home \in ExtractedHomes :
            /\ jdkDirectory' = home
            /\ log' = log \o << Did("extract", sourceFile), Did("extractReturned", home) >>
            /\ pc' = "publish"
            /\ UNCHANGED error
       \/ /\ Throw("ExtractFailed")
          /\ log' = Append(log, Did("extract", sourceFile))
          /\ UNCHANGED jdkDirectory
    /\ UNCHANGED <<inputVars, fsVars, taskVars, compressedFileExtension, sourceFile,
                   mountVars, pkgVars, exits>>

\* ------------------------------------------------------------ getJava, run
\* Publish that sets JAVA_HOME only
Publish_onlyJavaHome ==
    /\ pc = "publish"
    /\ LET stored == IF jdkDirectory = undefined THEN emptyString ELSE jdkDirectory
       IN  variables' = [variables EXCEPT ![JAVA_HOME] = stored]
    /\ IF jdkDirectory = undefined
       THEN /\ Throw("TypeError")
            /\ UNCHANGED PATH
       ELSE /\ PATH' = << join2(jdkDirectory, BIN_FOLDER) >> \o PATH
            /\ pc' = "succeeded"
            /\ UNCHANGED error
    /\ UNCHANGED <<inputVars, fsVars, result, errors, compressedFileExtension, sourceFile,
                   mountVars, pkgVars, jdkDirectory, exits, log>>

\* The end of getJava: setVariable twice, then prependPath(path.join(...)).
\* setVariable stores '' for undefined; path.join throws a TypeError on it.
Publish ==
    /\ pc = "publish"
    /\ LET stored == IF jdkDirectory = undefined THEN emptyString ELSE jdkDirectory
       IN  variables' = [variables EXCEPT ![JAVA_HOME] = stored, ![extendedJavaHome] = stored]
    /\ IF jdkDirectory = undefined
       THEN /\ Throw("TypeError")
            /\ UNCHANGED PATH
       ELSE /\ PATH' = << join2(jdkDirectory, BIN_FOLDER) >> \o PATH
            /\ pc' = "succeeded"
            /\ UNCHANGED error
    /\ UNCHANGED <<inputVars, fsVars, result, errors, compressedFileExtension, sourceFile,
                   mountVars, pkgVars, jdkDirectory, exits, log>>

\* run(): taskLib.setResult(Succeeded, loc('SucceedMsg'))
Succeed ==
    /\ pc = "succeeded"
    /\ result' = Append(result, [result |-> "Succeeded", message |-> "SucceedMsg"])
    /\ pc' = "done"
    /\ UNCHANGED <<inputVars, fsVars, variables, PATH, errors, compressedFileExtension,
                   sourceFile, mountVars, pkgVars, jdkDirectory, error, exits, log>>

\* Catch that falls through to the statement after getJava: the result is
\* set a second time
Catch_fallThrough ==
    /\ pc = "catch"
    /\ errors' = Append(errors, error)
    /\ result' = result \o << [result |-> "Failed", message |-> error],
                              [result |-> "Succeeded", message |-> "SucceedMsg"] >>
    /\ pc' = "done"
    /\ UNCHANGED <<inputVars, fsVars, variables, PATH, compressedFileExtension,
                   sourceFile, mountVars, pkgVars, jdkDirectory, error, exits, log>>

\* run(): catch (error) { taskLib.error(error.message); setResult(Failed, error.message) }
Catch ==
    /\ pc = "catch"
    /\ errors' = Append(errors, error)
    /\ result' = Append(result, [result |-> "Failed", message |-> error])
    /\ pc' = "done"
    /\ UNCHANGED <<inputVars, fsVars, variables, PATH, compressedFileExtension,
                   sourceFile, mountVars, pkgVars, jdkDirectory, error, exits, log>>

Next ==
    \/ CleanDestination
    \/ ChooseSource
    \/ Download
    \/ Classify
    \/ InstallJDK
    \/ Attach
    \/ GetVolumePath
    \/ GetPackagePath
    \/ InstallPkg
    \/ RunPkgInstaller
    \/ NewJDKs
    \/ Detach
    \/ Extract
    \/ Publish
    \/ Succeed
    \/ Catch

Spec == Init /\ [][Next]_vars

\* The run when every step that can be taken is taken: the code between two
\* awaits runs to its end and every awaited call (download, attach, installer,
\* detach, extractor) returns.
SpecFair == Spec /\ WF_vars(Next)

\* The classifier alone, on every enumerated file name
InitClassify ==
    /\ InitCommon
    /\ pc = "classify"
    /\ jdkSourceOption \in {"AzureStorage", "LocalDirectory"}
    /\ version = ""
    /\ fileName \in ClassifyNames
    /\ cleanDestinationDirectory = FALSE
    /\ destKind = "dir"
    /\ destEntries = {}

NextClassify == Classify

SpecClassify == InitClassify /\ [][NextClassify]_vars

\* The two directory diffs alone, on every pair of a snapshot and a later
\* content of the directory: getVolumePath in the disk-image flow after attach
\* has returned, and the end of installPkg in the package-file flow after the
\* installer has run.  Other processes may have added and removed entries.
InitDiff ==
    /\ pc \in {"getVolumePath", "newJDKs"}
    /\ platform = "darwin"
    /\ jdkSourceOption = "LocalDirectory"
    /\ version = ""
    /\ versionSpec \in VersionSpecs
    /\ jdkArchitectureOption \in Architectures
    /\ fileName = <<"j">> \o (IF pc = "getVolumePath" THEN DMG ELSE PKG)
    /\ cleanDestinationDirectory = FALSE
    /\ destKind = "dir"
    /\ destEntries = {}
    /\ volumeFiles = {}
    /\ \E registered \in BOOLEAN :
         variables = [n \in VariableNames |->
                        IF registered /\ n = extendedJavaHomeName(versionSpec, jdkArchitectureOption)
                        THEN registeredHome ELSE undefined]
    /\ PATH = << >>
    /\ result = << >>
    /\ errors = << >>
    /\ compressedFileExtension = getSupportedFileEnding(fileName).value
    /\ sourceFile = << fileName >>
    /\ volumesAfter = {}
    /\ newVolumes = << >>
    /\ volumePath = undefined
    /\ packages = << >>
    /\ newJDKs = << >>
    /\ jdkDirectory = undefined
    /\ error = ""
    /\ IF pc = "getVolumePath"
       THEN /\ volumes \in SUBSET ({ systemVolume } \cup NewVolumeNames)
            /\ volumesDir \in SUBSET ({ systemVolume } \cup NewVolumeNames)
            /\ JDKs = {}
            /\ jdkDir = { installedJDK }
            /\ pkgPath = undefined
            /\ exits = [NoExits EXCEPT !.attach = "zero"]
            /\ log = << Did("readdir", VOLUMES_FOLDER),
                        Op("attach", "sudo", "hdiutil", sourceFile) >>
       ELSE /\ volumes = {}
            /\ volumesDir = { systemVolume }
            /\ JDKs \in SUBSET ({ installedJDK } \cup NewJDKNames)
            /\ jdkDir \in SUBSET ({ installedJDK } \cup NewJDKNames)
            /\ pkgPath = sourceFile
            /\ \E o \in {"zero", "nonzero"} : exits = [NoExits EXCEPT !.installer = o]
            /\ log = << Did("existsSync", pkgPath), Did("readdir", JDK_FOLDER),
                        Op("installer", "sudo", "installer", pkgPath) >>

NextDiff ==
    \/ GetVolumePath
    \/ NewJDKs

SpecDiff == InitDiff /\ [][NextDiff]_vars

\* ---------------------------------------------------------- properties
Recognized(name) ==
    \E i \in 1..Len(supportedFileEndings) : EndsWith(name, supportedFileEndings[i])

\* The external operation `name` has been invoked
Ran(name) == \E i \in DOMAIN log : log[i].op = name
\* How often directory `dir` has been listed
Listed(dir) == Cardinality({ i \in DOMAIN log : log[i] = Did("readdir", dir) })

Finished == pc = "done"
Failed == Len(result) = 1 /\ result[1].result = "Failed"
FailedWith(message) == Failed /\ result[1].message = message
Succeeded == Len(result) = 1 /\ result[1].result = "Succeeded"

\* The mount root has been listed before and after attach
MountDiffTaken == Listed(VOLUMES_FOLDER) = 2
\* The mounted volume has been searched for packages
PackageLookupDone == volumePath # undefined /\ Listed(volumePath) = 1
\* The JDK root has been listed before and after the installer run
JdkDiffTaken == Ran("installer") /\ Listed(JDK_FOLDER) = 2
NewVolumeEntries == volumesAfter \ volumes
NewJdkEntries == jdkDir \ JDKs
PackagesOnVolume == { f \in volumeFiles : EndsWith(f, PKG) }

\* C1: getSupportedFileEnding returns ending s exactly when the file name ends
\* with s (a plain, case-sensitive suffix test), for each of the six supported
\* endings, and throws UnsupportedFileExtension exactly when the name ends
\* with none of them.
C1_ClassifierIsSuffixTest ==
    pc # "classify" =>
        /\ \A i \in 1..Len(supportedFileEndings) :
             (pc = "installJDK" /\ compressedFileExtension = supportedFileEndings[i])
                <=> EndsWith(fileName, supportedFileEndings[i])
        /\ (pc = "catch" /\ error = "UnsupportedFileExtension") <=> ~Recognized(fileName)

C1_Witness ==
    /\ pc = "installJDK"
    /\ compressedFileExtension = <<".", "t", "a", "r", ".", "g", "z">>
    /\ fileName = <<"/", ".", ".", "t", "a", "r", ".", "g", "z">>

\* C2: a run that takes its archive from a local file or from remote storage
\* and whose archive name has no supported ending never invokes attach, the
\* package installer, detach or the extractor, and ends Failed.
C2_UnsupportedNameStopsRun ==
    (jdkSourceOption \in {"AzureStorage", "LocalDirectory"} /\ ~Recognized(fileName)) =>
        /\ ~Ran("attach") /\ ~Ran("installer") /\ ~Ran("detach") /\ ~Ran("extract")
        /\ Finished => Failed

C2_Witness ==
    /\ Finished
    /\ FailedWith("UnsupportedFileExtension")
    /\ fileName = <<"j", ".", "D", "M", "G">>
    /\ platform = "darwin"

\* C3: in the disk-image flow, when the mount root after attach minus the
\* mount root before attach has no entry or more than one, the install fails
\* (UnsupportedDMGStructure) and the package installer is never invoked.
C3_AmbiguousMountFails ==
    (MountDiffTaken /\ Cardinality(NewVolumeEntries) # 1) =>
        /\ error = "UnsupportedDMGStructure"
        /\ ~Ran("installer")
        /\ Finished => FailedWith("UnsupportedDMGStructure")

C3_Witness ==
    /\ Finished
    /\ MountDiffTaken
    /\ Cardinality(NewVolumeEntries) = 2
    /\ exits.attach = "zero"

\* C4: in the disk-image flow, a mounted volume with no entry ending in .pkg
\* fails the install with NoPKGFile and one with two or more fails it with
\* SeveralPKGFiles; in both cases no package path is chosen and the package
\* installer is never invoked.
C4_PackageLookupFails ==
    (PackageLookupDone /\ Cardinality(PackagesOnVolume) # 1) =>
        /\ error = IF PackagesOnVolume = {} THEN "NoPKGFile" ELSE "SeveralPKGFiles"
        /\ pkgPath = undefined
        /\ ~Ran("installer")
        /\ Finished => FailedWith(error)

C4_Witness ==
    /\ Finished
    /\ PackageLookupDone
    /\ Cardinality(PackagesOnVolume) = 2
    /\ FailedWith("SeveralPKGFiles")

\* C5: after the package installer has run, when the JDK root after the run
\* minus the JDK root before it has more than one entry, the install fails;
\* no JDK home is resolved by picking one of the new entries.
C5_AmbiguousInstallFails ==
    (JdkDiffTaken /\ Cardinality(NewJdkEntries) > 1) =>
        /\ error # ""
        /\ jdkDirectory = undefined
        /\ Finished => Failed

\* C6: after the package installer has run, when the JDK root after the run
\* minus the JDK root before it is the single entry X, installPkg returns
\* JDK_FOLDER/X/Contents/Home, whatever the installer's exit status.
C6_SingleNewEntryResolves ==
    (JdkDiffTaken /\ Cardinality(NewJdkEntries) = 1) =>
        /\ error = ""
        /\ \A X \in NewJdkEntries :
             jdkDirectory = JDK_FOLDER \o << X >> \o << <<"Contents">>, <<"Home">> >>

C6_Witness ==
    /\ JdkDiffTaken
    /\ Cardinality(NewJdkEntries) = 1
    /\ exits.installer = "nonzero"
    /\ installedJDK \notin jdkDir
    /\ Finished

\* C7: after the package installer has run, when the JDK-root diff is empty
\* and JAVA_HOME_<version>_<arch> is set, the install resolves to the value of
\* that variable and does not fail.
C7_NoNewEntryUsesRegisteredJdk ==
    (JdkDiffTaken /\ NewJdkEntries = {} /\ variables[extendedJavaHome] # undefined) =>
        /\ error = ""
        /\ jdkDirectory = registeredHome
        /\ jdkDirectory = variables[extendedJavaHome]
        /\ Finished => Succeeded

C7_Witness ==
    /\ Finished
    /\ JdkDiffTaken
    /\ NewJdkEntries = {}
    /\ variables[extendedJavaHome] = registeredHome
    /\ Succeeded

\* C8: after the package installer has run, when the JDK-root diff is empty
\* and JAVA_HOME_<version>_<arch> is not set, the install fails
\* (JavaNotPreinstalled), the run ends Failed and no variable and no search
\* path entry is published.
C8_NoNewEntryNoRegisteredJdkFails ==
    (JdkDiffTaken /\ NewJdkEntries = {} /\ variables[extendedJavaHome] = undefined) =>
        /\ error = "JavaNotPreinstalled"
        /\ jdkDirectory = undefined
        /\ \A n \in VariableNames : variables[n] = undefined
        /\ PATH = << >>
        /\ Finished => FailedWith("JavaNotPreinstalled")

C8_Witness ==
    /\ Finished
    /\ JdkDiffTaken
    /\ NewJdkEntries = {}
    /\ variables[extendedJavaHome] = undefined
    /\ exits.installer = "zero"

\* What installPkg returned, read back from its locals
InstallPkgReturned ==
    IF newJDKs = << >> THEN registeredHome
    ELSE JDK_FOLDER \o << newJDKs[1] >> \o << <<"Contents">>, <<"Home">> >>

\* C9: in the disk-image flow a failing detach does not change the outcome:
\* installJDK returns the JDK home installPkg resolved, no error is in
\* flight, and the run ends Succeeded publishing that home.
C9_DetachFailureIsNotFatal ==
    exits.detach \in {"nonzero", "nolaunch"} =>
        /\ error = ""
        /\ pc \in {"publish", "succeeded", "done"}
        /\ jdkDirectory = InstallPkgReturned
        /\ errors # << >> /\ errors[1] = "DetachFailed"
        /\ Finished => (Succeeded /\ variables[JAVA_HOME] = InstallPkgReturned)

C9_Witness ==
    /\ Finished
    /\ exits.detach = "nonzero"
    /\ Succeeded
    /\ Len(newJDKs) = 1

\* C10: in the disk-image flow, when the mount tool's attach run does not
\* exit with status zero, the install fails there: the mount root is not
\* listed again, no volume is searched, and neither the package installer
\* nor detach is invoked.
C10_AttachFailureStopsInstall ==
    exits.attach \in {"nonzero", "nolaunch"} =>
        /\ error = "AttachFailed"
        /\ Listed(VOLUMES_FOLDER) = 1
        /\ volumePath = undefined /\ pkgPath = undefined
        /\ ~Ran("installer") /\ ~Ran("detach")
        /\ Listed(JDK_FOLDER) = 0
        /\ Finished => FailedWith("AttachFailed")

C10_Witness ==
    /\ Finished
    /\ exits.attach = "nonzero"
    /\ Cardinality(volumesDir) = 2
    /\ Cardinality(PackagesOnVolume) = 1

\* The JDK homes the JDK-root diff allows: one per new entry
HomesOfNewEntries ==
    { JDK_FOLDER \o << X >> \o << <<"Contents">>, <<"Home">> >> : X \in NewJdkEntries }

\* C11: a package installer run that exits non-zero does not fail the
\* install: the JDK root is listed again and the outcome is the one the diff
\* gives, whatever the exit status (a new entry resolves to its home; no new
\* entry resolves to the registered JDK, or fails when none is registered).
C11_NonZeroInstallerExitIsJudgedByDiff ==
    exits.installer = "nonzero" =>
        /\ pc = "newJDKs" => error = ""
        /\ pc # "newJDKs" =>
             /\ JdkDiffTaken
             /\ NewJdkEntries # {} => (error = "" /\ jdkDirectory \in HomesOfNewEntries)
             /\ (NewJdkEntries = {} /\ variables[extendedJavaHome] # undefined) =>
                    (error = "" /\ jdkDirectory = registeredHome)
             /\ (NewJdkEntries = {} /\ variables[extendedJavaHome] = undefined) =>
                    error = "JavaNotPreinstalled"

C11_Witness ==
    /\ Finished
    /\ exits.installer = "nonzero"
    /\ Cardinality(NewJdkEntries) = 1
    /\ Succeeded
    /\ compressedFileExtension = PKG

\* C12: when the package installer cannot be launched at all, the install is
\* a hard failure: the run ends Failed, whatever the JDK root holds and
\* whether or not JAVA_HOME_<version>_<arch> is set.
C12_InstallerLaunchFailureIsFatal ==
    (Finished /\ exits.installer = "nolaunch") => Failed

\* C13: a run that ends Failed has set neither JAVA_HOME nor
\* JAVA_HOME_<version>_<arch> and has prepended nothing to the search path:
\* JAVA_HOME is still unset, the extended variable is unset or still holds
\* the JDK registered by an earlier run, for every source kind and also after
\* a cache hit.
C13_FailedRunPublishesNothing ==
    (Finished /\ Failed) =>
        /\ variables[JAVA_HOME] = undefined
        /\ variables[extendedJavaHome] \in {undefined, registeredHome}
        /\ PATH = << >>

\* C14: a run that ends Succeeded has set JAVA_HOME and
\* JAVA_HOME_<version>_<arch> to the same resolved JDK home and has prepended
\* that home joined with the binary subfolder to the search path.
C14_SucceededRunPublishesHome ==
    (Finished /\ Succeeded) =>
        /\ jdkDirectory # undefined
        /\ variables[JAVA_HOME] = jdkDirectory
        /\ variables[<<"JAVA_HOME", "_", versionSpec, "_", jdkArchitectureOption>>] = jdkDirectory
        /\ PATH = << jdkDirectory \o BIN_FOLDER >>

C14_Witness ==
    /\ Finished
    /\ Succeeded
    /\ jdkDirectory \in ExtractedHomes
    /\ versionSpec = "8"
    /\ variables[extendedJavaHomeName("8", "x64")] = jdkDirectory

\* The only operation in the log, if any, is the cleaning of the destination
OnlyCleaned == \A i \in DOMAIN log : log[i].op = "clean"

\* C15: when a cached version matches the version spec, the run downloads
\* nothing, classifies nothing and invokes neither attach, the package
\* installer, detach nor the extractor, whatever the source option.
C15_CacheHitShortCircuits ==
    version # "" =>
        /\ OnlyCleaned
        /\ pc \in {"getJava", "source", "publish", "succeeded", "catch", "done"}
        /\ compressedFileExtension = undefined
        /\ sourceFile = undefined
        /\ error # "UnsupportedFileExtension"
        /\ destEntries \subseteq { <<"o", "l", "d">> }

C15_Witness ==
    /\ Finished
    /\ version # ""
    /\ jdkSourceOption = "AzureStorage"
    /\ platform = "darwin"
    /\ fileName = <<"j", ".", "d", "m", "g">>

\* C16: with the PreInstalled source option and no cache hit the run
\* downloads, mounts, installs and extracts nothing; it ends Failed when
\* JAVA_HOME_<version>_<arch> is unset and resolves to its value when set.
C16_PreInstalledSource ==
    (Finished /\ version = "" /\ jdkSourceOption = "PreInstalled") =>
        /\ OnlyCleaned
        /\ IF variables[extendedJavaHome] = undefined
           THEN Failed
           ELSE /\ Succeeded
                /\ jdkDirectory = registeredHome
                /\ variables[JAVA_HOME] = registeredHome

\* The archive kinds the generic extractor is meant for
GenericEndings ==
    { <<".", "t", "a", "r">>, <<".", "t", "a", "r", ".", "g", "z">>,
      <<".", "z", "i", "p">>, <<".", "7", "z">> }

\* C17: for an archive classified .tar, .tar.gz, .zip or .7z, on every
\* platform, installJDK invokes neither attach, the package installer nor
\* detach, lists neither the mount root nor the JDK root, and returns exactly
\* the path the extractor returned.
C17_GenericArchiveIsExtracted ==
    compressedFileExtension \in GenericEndings =>
        /\ ~Ran("attach") /\ ~Ran("installer") /\ ~Ran("detach")
        /\ Listed(VOLUMES_FOLDER) = 0 /\ Listed(JDK_FOLDER) = 0
        /\ pc \notin {"installJDK", "extract"} => Ran("extract")
        /\ \A i \in DOMAIN log :
             log[i].op = "extractReturned" =>
                /\ error = ""
                /\ jdkDirectory = log[i].target
                /\ Finished => (Succeeded /\ variables[JAVA_HOME] = log[i].target)

C17_Witness ==
    /\ Finished
    /\ compressedFileExtension = <<".", "7", "z">>
    /\ platform = "darwin"
    /\ Ran("extractReturned")
    /\ Succeeded

\* C18: on macOS, for an archive classified .dmg, when attach succeeds and
\* adds exactly one volume, the volume holds exactly one .pkg file and the
\* installer run adds exactly one JDK-root entry X, the run ends Succeeded
\* with JDK home JDK_FOLDER/X/Contents/Home and detach is invoked once, on
\* the volume found by the mount diff.
C18_DiskImageSuccessPath ==
    ( /\ Finished
      /\ platform = "darwin"
      /\ compressedFileExtension = DMG
      /\ exits.attach = "zero"
      /\ Cardinality(NewVolumeEntries) = 1
      /\ Cardinality(PackagesOnVolume) = 1
      /\ JdkDiffTaken
      /\ Cardinality(NewJdkEntries) = 1 ) =>
        /\ Succeeded
        /\ \A X \in NewJdkEntries :
             /\ jdkDirectory = JDK_FOLDER \o << X >> \o << <<"Contents">>, <<"Home">> >>
             /\ variables[JAVA_HOME] = jdkDirectory
        /\ \A V \in NewVolumeEntries :
             /\ Cardinality({ i \in DOMAIN log : log[i].op = "detach" }) = 1
             /\ \A i \in DOMAIN log :
                  log[i].op = "detach" => log[i].target = VOLUMES_FOLDER \o << V >>
             /\ \A i \in DOMAIN log :
                  log[i].op = "installer" =>
                     log[i].target \in { VOLUMES_FOLDER \o << V >> \o << f >> : f \in PackagesOnVolume }

C18_Witness ==
    /\ Finished
    /\ Succeeded
    /\ compressedFileExtension = DMG
    /\ Cardinality(NewVolumeEntries) = 1
    /\ Cardinality(PackagesOnVolume) = 1
    /\ Cardinality(NewJdkEntries) = 1
    /\ exits = [attach |-> "zero", installer |-> "zero", detach |-> "zero"]
    /\ volumesDir = { systemVolume }

\* C19: the generic extractor is invoked only for archives classified .tar,
\* .tar.gz, .zip or .7z; on no platform is a .dmg or .pkg archive handed to it.
C19_ExtractorOnlyForGenericArchives ==
    Ran("extract") => compressedFileExtension \in GenericEndings

\* C20: attach, detach and the package installer are invoked only on macOS:
\* on any other platform no run invokes any of them, whatever the archive.
C20_MacToolsOnlyOnDarwin ==
    platform # "darwin" =>
        /\ ~Ran("attach") /\ ~Ran("detach") /\ ~Ran("installer")
        /\ exits = NoExits
        /\ Listed(VOLUMES_FOLDER) = 0 /\ Listed(JDK_FOLDER) = 0

C20_Witness ==
    /\ Finished
    /\ platform = "win32"
    /\ compressedFileExtension = DMG
    /\ Ran("extract")

\* C21: the task result is set at most once while the run is under way and
\* exactly once when it has ended, to Succeeded or to Failed and to nothing
\* else: Succeeded (SucceedMsg) exactly when getJava returned without an
\* error, otherwise Failed with the message of the error that left getJava,
\* which is also the message handed to taskLib.error.
C21_ResultIsSetOnce ==
    /\ Len(result) <= 1
    /\ \A i \in DOMAIN result : result[i].result \in {"Succeeded", "Failed"}
    /\ Finished <=> Len(result) = 1
    /\ Finished =>
         /\ Succeeded <=> error = ""
         /\ Succeeded => result[1].message = "SucceedMsg"
         /\ Failed <=> error # ""
         /\ Failed => (result[1].message = error /\ errors[Len(errors)] = error)

C21_Witness ==
    /\ Finished
    /\ result = << [result |-> "Failed", message |-> "NoPKGFile"] >>
    /\ errors = << "NoPKGFile" >>
    /\ Ran("attach")

\* C22: in the disk-image flow, once attach has succeeded and the mount diff
\* has found exactly one new volume, a run that has ended has invoked detach,
\* whether the package lookup and installPkg returned or threw.
C22_AttachedVolumeIsDetached ==
    ( /\ Finished
      /\ exits.attach = "zero"
      /\ MountDiffTaken
      /\ Cardinality(NewVolumeEntries) = 1 ) => Ran("detach")

\* The steps of installJDK and installPkg that read a directory or run a tool
IsInstallStep(entry) == entry.op \in {"readdir", "attach", "installer", "detach"}
InstallSteps == SelectSeq(log, IsInstallStep)
\* Operation and target of the steps of the disk-image flow, in order
DmgStepOps == <<"readdir", "attach", "readdir", "readdir", "readdir", "installer", "readdir", "detach">>
DmgStepTargets == <<VOLUMES_FOLDER, sourceFile, VOLUMES_FOLDER, volumePath, JDK_FOLDER, pkgPath,
                    JDK_FOLDER, volumePath>>

\* C23: in the disk-image flow the steps taken so far are, in this order and
\* each at most once: list the mount root, attach, list the mount root, list
\* the mounted volume, list the JDK root, run the installer, list the JDK
\* root, detach.  The mount-root snapshot holds what was there before attach
\* started and the second listing what is there after it exited; the same for
\* the JDK root and the installer.
C23_DiskImageStepsInOrder ==
    (compressedFileExtension = DMG /\ platform = "darwin") =>
        /\ Len(InstallSteps) <= Len(DmgStepOps)
        /\ \A i \in DOMAIN InstallSteps :
             /\ InstallSteps[i].op = DmgStepOps[i]
             /\ InstallSteps[i].target = DmgStepTargets[i]
        /\ Ran("attach") => volumes = { systemVolume }
        /\ (MountDiffTaken /\ ~Ran("detach")) => volumesAfter = volumesDir
        /\ Ran("installer") => JDKs = { installedJDK }
        /\ (JdkDiffTaken /\ pc # "newJDKs") => Range(newJDKs) = jdkDir \ JDKs
        /\ Ran("detach") => (JdkDiffTaken /\ pc # "newJDKs")

C23_Witness ==
    /\ Finished
    /\ compressedFileExtension = DMG
    /\ Len(InstallSteps) = 8
    /\ exits = [attach |-> "zero", installer |-> "nonzero", detach |-> "zero"]
    /\ jdkDir \ JDKs # {}
    /\ installedJDK \notin jdkDir

\* Operation and target of the steps of the package-file flow, in order
PkgStepOps == <<"readdir", "installer", "readdir">>
PkgStepTargets == <<JDK_FOLDER, sourceFile, JDK_FOLDER>>

\* C24: for an archive classified .pkg on macOS the mount root is never
\* listed and attach, detach and the extractor are never invoked; the steps
\* are: list the JDK root, run the installer on the archive path itself, list
\* the JDK root, and all three have been taken when installJDK has returned.
C24_PackageFileSkipsMount ==
    (compressedFileExtension = PKG /\ platform = "darwin") =>
        /\ Listed(VOLUMES_FOLDER) = 0
        /\ ~Ran("attach") /\ ~Ran("detach") /\ ~Ran("extract")
        /\ volumePath = undefined /\ exits.attach = "none" /\ exits.detach = "none"
        /\ Len(InstallSteps) <= Len(PkgStepOps)
        /\ \A i \in DOMAIN InstallSteps :
             /\ InstallSteps[i].op = PkgStepOps[i]
             /\ InstallSteps[i].target = PkgStepTargets[i]
        /\ (pc \in {"publish", "succeeded"} \/ (Finished /\ error # "PkgPathDoesNotExist")) =>
              Len(InstallSteps) = 3

C24_Witness ==
    /\ Finished
    /\ Succeeded
    /\ platform = "darwin"
    /\ compressedFileExtension = PKG
    /\ jdkSourceOption = "AzureStorage"
    /\ Len(InstallSteps) = 3
    /\ InstallSteps[2].target = << <<"dest">>, <<"j", ".", "p", "k", "g">> >>
    /\ Len(newJDKs) = 1

\* C25: a run in which a cached version matches the version spec ends
\* Succeeded with JAVA_HOME and JAVA_HOME_<version>_<arch> set to a JDK home
\* path that is defined (not undefined, not the empty string).
C25_CacheHitSucceeds ==
    (Finished /\ version # "") =>
        /\ Succeeded
        /\ variables[JAVA_HOME] \notin {undefined, emptyString}
        /\ variables[extendedJavaHome] \notin {undefined, emptyString}

\* What the destination directory held when the run started
InitialDestEntries == IF destKind = "dir" THEN { <<"o", "l", "d">> } ELSE {}

\* C26: a run without cache hit that takes its archive from a local file or
\* from remote storage and whose archive name has no supported ending ends
\* Failed with UnsupportedFileExtension, and when it has ended nothing was
\* downloaded into the destination directory and nothing in it was deleted.
C26_UnsupportedNameFailsFirst ==
    ( /\ Finished
      /\ version = ""
      /\ jdkSourceOption \in {"AzureStorage", "LocalDirectory"}
      /\ ~Recognized(fileName) ) =>
        /\ FailedWith("UnsupportedFileExtension")
        /\ ~Ran("download") /\ ~Ran("clean")
        /\ destEntries = InitialDestEntries

\* C27: the mount-root diff and the JDK-root diff hold exactly the entries
\* that are in the listing taken after the tool run and not in the snapshot
\* taken before it, each once, in whatever order the directory was listed;
\* the diff is empty when the directory holds the same entries as the
\* snapshot.
C27_DiffIsSetDifference ==
    /\ MountDiffTaken =>
         /\ Range(newVolumes) = volumesAfter \ volumes
         /\ Len(newVolumes) = Cardinality(volumesAfter \ volumes)
         /\ volumesAfter = volumes => newVolumes = << >>
    /\ (JdkDiffTaken /\ pc # "newJDKs") =>
         /\ Range(newJDKs) = jdkDir \ JDKs
         /\ Len(newJDKs) = Cardinality(jdkDir \ JDKs)
         /\ jdkDir = JDKs => newJDKs = << >>

C27_Witness ==
    /\ JdkDiffTaken /\ pc # "newJDKs"
    /\ JDKs = { installedJDK, << "j", "d", "k", "-", "1", ".", "j", "d", "k" >> }
    /\ jdkDir = { installedJDK, << "j", "d", "k", "-", "2", ".", "j", "d", "k" >> }
    /\ newJDKs = << << "j", "d", "k", "-", "2", ".", "j", "d", "k" >> >>

\* The statements of a run, in program order (the extractor and the
\* disk-image and package-file steps are alternatives)
PcOrder ==
    <<"getJava", "source", "download", "classify", "installJDK", "extract", "attach",
      "getVolumePath", "getPackagePath", "installPkg", "runPkgInstaller", "newJDKs",
      "detach", "publish", "succeeded", "catch", "done">>
PcRank(p) == CHOOSE i \in DOMAIN PcOrder : PcOrder[i] = p

\* The state of the install call, "none" while installJDK has not been called
InstallPhase ==
    IF compressedFileExtension = undefined THEN "none"
    ELSE IF error # "" THEN "Failed"
    ELSE IF pc = "installJDK" THEN "Classified"
    ELSE IF pc \in {"attach", "getVolumePath", "getPackagePath"} THEN "MountPending"
    ELSE IF pc \in {"installPkg", "runPkgInstaller", "extract"} THEN "InstallPending"
    ELSE IF pc = "newJDKs" THEN "Diffing"
    ELSE "Resolved"
PhaseOrder ==
    <<"none", "Classified", "MountPending", "InstallPending", "Diffing", "Resolved", "Failed">>
PhaseRank(p) == CHOOSE i \in DOMAIN PhaseOrder : PhaseOrder[i] = p
TimesRan(name) == Cardinality({ i \in DOMAIN log : log[i].op = name })

\* C28: when every awaited call returns, every run ends; every step of a run
\* moves it to a later statement; the install call goes from Classified to
\* MountPending or InstallPending, to Diffing and to Resolved or Failed
\* without ever going back, Resolved and Failed are never left, a run that
\* has ended has left its install call in one of the two, and no download,
\* attach, installer, detach or extractor run is repeated.
C28_RunTerminatesMovingForward ==
    /\ <>Finished
    /\ [][PcRank(pc') > PcRank(pc)]_vars
    /\ [][/\ PhaseRank(InstallPhase') >= PhaseRank(InstallPhase)
          /\ InstallPhase \in {"Resolved", "Failed"} => InstallPhase' = InstallPhase]_vars
    /\ [](Finished => InstallPhase \in {"none", "Resolved", "Failed"})
    /\ [](\A name \in {"download", "attach", "installer", "detach", "extract"} :
            TimesRan(name) <= 1)

C28_Witness ==
    /\ Finished
    /\ InstallPhase = "Resolved"
    /\ TimesRan("attach") = 1 /\ TimesRan("installer") = 1 /\ TimesRan("detach") = 1
    /\ TimesRan("download") = 1
    /\ exits.detach = "nolaunch"

\* C29: entries of the destination directory are deleted only when the clean
\* flag is true and the destination is an existing directory, and then all of
\* them are deleted and the directory stays; when the flag is false or the
\* destination is not a directory the cleaning step deletes nothing and
\* raises no error.
C29_CleanOnlyDirectories ==
    pc # "getJava" =>
        /\ (cleanDestinationDirectory /\ destKind = "dir") =>
              (Ran("clean") /\ InitialDestEntries \cap destEntries = {})
        /\ (~cleanDestinationDirectory \/ destKind # "dir") =>
              /\ InitialDestEntries \subseteq destEntries
              /\ ~Ran("clean")
              /\ error # "ENOTDIR"

\* C30: when nothing exists at the package path handed to installPkg, the
\* install fails with PkgPathDoesNotExist: the JDK root is not listed, the
\* package installer is not invoked, the JDK root holds what it held before,
\* and the run ends Failed.
C30_MissingPackageFailsEarly ==
    Ran("notFound") =>
        /\ error = "PkgPathDoesNotExist"
        /\ pc \in {"catch", "done"}
        /\ Listed(JDK_FOLDER) = 0 /\ JDKs = {}
        /\ ~Ran("installer") /\ exits.installer = "none"
        /\ jdkDir = { installedJDK }
        /\ jdkDirectory = undefined
        /\ Finished => FailedWith("PkgPathDoesNotExist")

C30_Witness ==
    /\ Finished
    /\ Ran("notFound")
    /\ compressedFileExtension = PKG
    /\ log[Len(log)] = Did("notFound", << <<"j", ".", "p", "k", "g">> >>)

\* The tools the task runs and the operation each is run for
ToolNames == {"hdiutil", "installer"}
ToolOf(op) == IF op = "installer" THEN "installer" ELSE "hdiutil"
IsToolRun(entry) == entry.op \in {"attach", "detach", "installer"}
\* sudo's result when the tool is run directly, and when it is run through
\* the wrapper with the tool's location as first argument
Direct(tool) == [program |-> tool, toolPath |-> ""]
Wrapped(tool) == [program |-> "sudo", toolPath |-> tool]

\* C31 (as stated): on win32 sudo(tool) runs the tool directly, on every
\* other platform it runs the wrapper with the tool's location on the search
\* path as first argument; every attach, detach and installer run of the task
\* is a run of the wrapper with the tool's location as first argument.
C31_SudoWrapsEveryTool ==
    /\ \A tool \in ToolNames, inPath \in BOOLEAN :
         sudo(tool, inPath) = IF platform = "win32" THEN Direct(tool) ELSE Wrapped(tool)
    /\ \A i \in DOMAIN log :
         IsToolRun(log[i]) =>
            (log[i].program = "sudo" /\ log[i].toolPath = ToolOf(log[i].op))

\* C31 (amended): on win32 sudo(tool) runs the tool directly; on every other
\* platform it runs the wrapper, with the tool's location as first argument
\* when the tool is on the search path and with no such argument when it is
\* not.  Every attach, detach and installer run of the task is a run of the
\* wrapper; its first argument is the tool's location unless the tool was not
\* found, and then the tool was not launched.
C31_SudoWrapsToolInPath ==
    /\ \A tool \in ToolNames :
         /\ sudo(tool, TRUE) = IF platform = "win32" THEN Direct(tool) ELSE Wrapped(tool)
         /\ sudo(tool, FALSE) = IF platform = "win32" THEN Direct(tool)
                                ELSE [program |-> "sudo", toolPath |-> ""]
    /\ \A i \in DOMAIN log :
         IsToolRun(log[i]) =>
            /\ log[i].program = "sudo"
            /\ log[i].toolPath \in { ToolOf(log[i].op), "" }
            /\ log[i].toolPath = "" => exits[log[i].op] = "nolaunch"

C31_Witness ==
    /\ Finished
    /\ platform = "darwin"
    /\ \E i, j, k \in DOMAIN log :
         /\ log[i].op = "attach" /\ log[i].program = "sudo" /\ log[i].toolPath = "hdiutil"
         /\ log[j].op = "installer" /\ log[j].program = "sudo" /\ log[j].toolPath = "installer"
         /\ log[k].op = "detach" /\ log[k].program = "sudo" /\ log[k].toolPath = ""

====
